---- MODULE Spec2Model ----
(***************************************************************************)
(* Qdrant collections manager: the FastAPI handlers of collections_api.py  *)
(* and the QdrantCollectionManager of qdrant_manager.py, as a state        *)
(* machine over the external vector store.                                 *)
(*                                                                         *)
(* Every handler is an `async def` that never awaits, so a handler that    *)
(* has started owns the event loop until it returns (variable loop).  The  *)
(* store is a separate service: points are written to it by other clients  *)
(* (action Ingest) and any call to it may raise (a refused connection, a   *)
(* timeout); a call that raises leaves the store as it was.  The store is   *)
(* modelled by what the manager reads back from it: the collection names,  *)
(* each collection's vector parameters and metadata, and its points.  The  *)
(* payload indexes it builds change no answer it gives and are not kept.   *)
(***************************************************************************)
EXTENDS Integers, Sequences, FiniteSets, TLC

\* ------------------------------------------------------------------ bounds
MaxPoints == 3          \* points a collection holds at most
\* store calls that raise during one request, at most: a create goes on
\* after a create_payload_index that raised, and makes six of these calls
MaxFaults == 6
\* the page size of the scan in list_documents_in_collection (limit=100 in
\* the code), scaled down with MaxPoints so that a scan takes several pages
ScrollLimit == 2

\* ------------------------------------------------------- program constants
DEFAULT_VECTOR_SIZE == 768

\* DEFAULT_PAYLOAD_INDEXES, in the dict's insertion order
DEFAULT_PAYLOAD_INDEXES ==
    <<"document_hash", "filename", "format", "chunk", "total_pages", "date">>

\* qdrant_client.models.Distance: a member has a name and a value
Distance_COSINE == [name |-> "COSINE", value |-> "Cosine"]
Distance_EUCLID == [name |-> "EUCLID", value |-> "Euclid"]
Distance_DOT == [name |-> "DOT", value |-> "Dot"]

\* Python's None
None == "None"

\* ------------------------------------------------------------------ inputs
\* the names requests are made for; creates are asked for CreateNames only,
\* so that a name stays missing while another collection holds points
Names == {"c1", "c2"}
CreateNames == {"c1"}
Descriptions == {None, "d"}
VectorSizes == {4, DEFAULT_VECTOR_SIZE}
SupportedDistances == {"Cosine", "Euclid", "Dot"}
DistanceArgs == SupportedDistances \cup {"Manhattan"}
Filenames == {"a.pdf", "b.pdf"}
Times == {"t1"}
\* a payload key that is not set
Missing == "<missing>"
Payloads == [filename : Filenames \cup {Missing}]

VARIABLES
    store,        \* the vector store: collection name -> collection
    pc,           \* per request: idle, queued, or the handler's next store call
    req,          \* per request: the operation and its arguments
    info,         \* per request: the local `info` (get_collection's answer)
    all_points,   \* per request: the local `all_points` of the document scan
    offset,       \* per request: the local `offset` of the document scan
    field,        \* per request: position in DEFAULT_PAYLOAD_INDEXES in create
    loop,         \* the request whose handler holds the event loop
    out,          \* the HTTP response that the last step sent, if it sent one
    faults,       \* store calls that have raised in the request that is
                  \*   running or has just been answered
    not_created,  \* the fields that request's create logged as
                  \*   "indice no creado": their create_payload_index raised
    before,       \* history: the collection as that request's handler found it
    stale,        \* history: points were written under that request's scan
    created,      \* history: name -> the vector_size and distance of the create
                  \*   that succeeded for it, no delete of it having succeeded since
    halfCleared   \* history: names whose clear deleted and did not recreate

\* the requests the server has a connection for
Requests == DOMAIN pc

vars == <<store, pc, req, info, all_points, offset, field, loop, out, faults,
          not_created, before, stale, created, halfCleared>>

NoReq == "none"
NoRequest == [op |-> "none"]
NoInfo == [points_count |-> -1]
NoResponse == [req |-> NoReq, request |-> NoRequest, status |-> 0,
               exc |-> "none", detail |-> None, body |-> None]
EmptyStore == [n \in {} |-> NoInfo]
NoCollection == [exists |-> FALSE, nonempty |-> FALSE]

\* ------------------------------------------------------ the store's calls
\* get_collections().collections, as the names
get_collections(s) == DOMAIN s

\* client.create_collection(collection_name, vectors_config, metadata)
client_create_collection(s, name, vectors_config, metadata) ==
    [n \in DOMAIN s \cup {name} |->
        IF n = name
        THEN [vectors |-> vectors_config, metadata |-> metadata, points |-> <<>>]
        ELSE s[n]]

\* client.delete_collection(name)
client_delete_collection(s, name) == [n \in DOMAIN s \ {name} |-> s[n]]

\* client.get_collection(name): the config and the counters
client_get_collection(s, name) ==
    [vectors |-> s[name].vectors, metadata |-> s[name].metadata,
     points_count |-> Len(s[name].points)]

\* client.update_collection(name, metadata): whether the store merges the
\* new metadata into the stored one or replaces it is the store's choice
MergeMetadata(old, new) ==
    [k \in DOMAIN old \cup DOMAIN new |-> IF k \in DOMAIN new THEN new[k] ELSE old[k]]

client_update_collection(s, name, metadata, merge) ==
    [s EXCEPT ![name].metadata =
        IF merge THEN MergeMetadata(@, metadata) ELSE metadata]

\* client.scroll(name, limit, offset): a page of points in id order (a
\* point's id is its position) and the id of the next point, or None (0)
client_scroll(s, name, limit, off) ==
    LET pts == s[name].points
        from == IF off = 0 THEN 1 ELSE off
        to == IF from + limit - 1 < Len(pts) THEN from + limit - 1 ELSE Len(pts)
    IN  [points |-> SubSeq(pts, from, to),
         next_offset |-> IF to < Len(pts) THEN to + 1 ELSE 0]

\* dict.get(key, default)
DictGet(d, key, default) == IF key \in DOMAIN d THEN d[key] ELSE default

\* payload.get(key, default)
PayloadGet(payload, key, default) ==
    IF payload[key] = Missing THEN default ELSE payload[key]

\* ------------------------------------------------- QdrantCollectionManager
collection_exists_Always(s, name) == name \in Names

\* collection_exists(name)
collection_exists(s, name) == name \in get_collections(s)

\* distance_map.get(distance, Distance.COSINE) in create_collection
distance_map(distance) ==
    CASE distance = "Cosine" -> Distance_COSINE
      [] distance = "Euclid" -> Distance_EUCLID
      [] distance = "Dot" -> Distance_DOT
      [] OTHER -> Distance_COSINE

\* the CollectionStats that get_collection_info builds from `info`
CollectionStats(name, i) ==
    [name |-> name,
     description |-> DictGet(i.metadata, "description", None),
     vector_size |-> i.vectors.size,
     distance |-> i.vectors.distance.name,
     points_count |-> i.points_count,
     created_at |-> DictGet(i.metadata, "created_at", None)]

\* the grouping loop of list_documents_in_collection: `documents` as the
\* sequence of its values, in the order the filenames are first met
RECURSIVE GroupDocuments(_, _)
GroupDocuments(points, documents) ==
    IF points = <<>> THEN documents
    ELSE LET filename == PayloadGet(Head(points), "filename", "unknown")
             known == {i \in DOMAIN documents : documents[i].filename = filename}
             opened == IF known = {}
                       THEN Append(documents, [filename |-> filename, chunks_count |-> 0])
                       ELSE documents
             at == CHOOSE i \in DOMAIN opened : opened[i].filename = filename
         IN  GroupDocuments(Tail(points),
                 [opened EXCEPT ![at].chunks_count = @ + 1])

\* what list_documents_in_collection returns for the scanned points
DocumentsResult(name, points) ==
    LET documents == GroupDocuments(points, <<>>)
    IN  [collection_name |-> name,
         total_documents |-> Len(documents),
         total_points |-> Len(points),
         documents |-> documents]

Success(name) == [success |-> TRUE, collection_name |-> name]

\* ------------------------------------------------------------ HTTP layer
\* the status each endpoint answers: its status_code, and its except clauses
HttpStatus(op, exc) ==
    CASE exc = "none" -> IF op = "create" THEN 201 ELSE 200
      [] exc = "ValueError" /\ op \in {"create", "delete"} -> 400
      [] exc = "ValueError" /\ op \in {"get", "update", "clear", "stats",
                                       "list_documents", "delete_document"} -> 404
      [] OTHER -> 500

\* the request bodies and path/query parameters of the endpoints
RequestArgs ==
    [op : {"create"}, name : CreateNames, description : Descriptions,
     vector_size : VectorSizes, distance : DistanceArgs]
    \cup [op : {"get", "clear", "stats", "exists", "list_documents"}, name : Names]
    \cup [op : {"update"}, name : Names, description : Descriptions]
    \cup [op : {"delete"}, name : Names, force : BOOLEAN]
    \cup [op : {"delete_document"}, name : Names, filename : Filenames]

\* the handler's first call to the store

FirstCall(op) ==
    CASE op = "create" -> "create_exists"
      [] op = "get" -> "get_exists"
      [] op = "update" -> "update_exists"
      [] op = "delete" -> "delete_exists"
      [] op = "clear" -> "clear_exists"
      [] op = "exists" -> "exists_exists"
      [] op = "stats" -> "stats_exists"
      [] op = "list_documents" -> "list_exists"
      [] op = "delete_document" -> "deldoc_exists"

\* ---------------------------------------------------------------- frames
\* the handler of r ends: the response goes out and the event loop is free
Respond(r, exc, detail, body) ==
    /\ out' = [req |-> r, request |-> req[r],
               status |-> HttpStatus(req[r].op, exc),
               exc |-> exc, detail |-> detail, body |-> body]
    /\ pc' = [pc EXCEPT ![r] = "idle"]
    /\ req' = [req EXCEPT ![r] = NoRequest]
    /\ info' = [info EXCEPT ![r] = NoInfo]
    /\ all_points' = [all_points EXCEPT ![r] = <<>>]
    /\ offset' = [offset EXCEPT ![r] = 0]
    /\ field' = [field EXCEPT ![r] = 0]
    /\ loop' = NoReq
    /\ UNCHANGED <<before, stale>>

\* the handler of r goes on to its next store call
Goto(r, label) ==
    /\ pc' = [pc EXCEPT ![r] = label]
    /\ UNCHANGED <<req, loop, out, before, stale>>

\* whether the store call about to be made answers (TRUE) or raises (FALSE)
CallOutcomes == IF faults < MaxFaults THEN BOOLEAN ELSE {TRUE}

\* a store call raises and nothing in the manager catches it
StoreRaises(r) ==
    /\ faults' = faults + 1
    /\ Respond(r, "StoreError", "store", None)
    /\ UNCHANGED <<store, not_created, created, halfCleared>>

\* the store answers a call with an error of its own (the collection is
\* missing, or exists already): the client raises UnexpectedResponse
StoreRejects(r) ==
    /\ Respond(r, "UnexpectedResponse", "store", None)
    /\ UNCHANGED <<store, faults, not_created, created, halfCleared>>

ExistsOrNotFound_NoCheck(r, label) ==
    \E ok \in CallOutcomes :
        IF ~ok THEN StoreRaises(r)
        ELSE /\ Goto(r, label)
             /\ UNCHANGED <<store, faults, not_created, created, halfCleared,
                            info, all_points, offset, field>>

\* `if not self.collection_exists(name): raise ValueError(...)`, then label
ExistsOrNotFound(r, label) ==
    \E ok \in CallOutcomes :
        IF ~ok THEN StoreRaises(r)
        ELSE IF ~collection_exists(store, req[r].name)
        THEN /\ Respond(r, "ValueError", "NotFound", None)
             /\ UNCHANGED <<store, faults, not_created, created, halfCleared>>
        ELSE /\ Goto(r, label)
             /\ UNCHANGED <<store, faults, not_created, created, halfCleared,
                            info, all_points, offset, field>>

\* --------------------------------------------------------------- actions
Init ==
    /\ store = EmptyStore
    /\ pc = [r \in {"r1"} |-> "idle"]
    /\ req = [r \in {"r1"} |-> NoRequest]
    /\ info = [r \in {"r1"} |-> NoInfo]
    /\ all_points = [r \in {"r1"} |-> <<>>]
    /\ offset = [r \in {"r1"} |-> 0]
    /\ field = [r \in {"r1"} |-> 0]
    /\ loop = NoReq
    /\ out = NoResponse
    /\ faults = 0
    /\ not_created = {}
    /\ before = NoCollection
    /\ stale = FALSE
    /\ created = EmptyStore
    /\ halfCleared = {}

\* a step that is not a handler's: what out and the history variables
\* keep of an answered request is dropped
Forget ==
    IF loop = NoReq
    THEN /\ out' = NoResponse
         /\ faults' = 0
         /\ not_created' = {}
         /\ before' = NoCollection
    ELSE UNCHANGED <<out, faults, not_created, before>>

\* another client of the store upserts a point: a new one, or a new
\* payload for the point with id i
Ingest(n, i, p) ==
    /\ n \in DOMAIN store
    /\ i \in 1..(Len(store[n].points) + 1)
    /\ i <= MaxPoints
    /\ store' = [store EXCEPT ![n].points =
                    IF i > Len(@) THEN Append(@, p) ELSE [@ EXCEPT ![i] = p]]
    /\ store' # store
    /\ stale' = (loop # NoReq /\ (stale \/ req[loop].op = "list_documents"))
    /\ Forget
    /\ UNCHANGED <<pc, req, info, all_points, offset, field, loop, created,
                   halfCleared>>

\* the server accepts a request; its handler waits for the event loop
Recv(r) ==
    /\ pc[r] = "idle"
    /\ pc' = [pc EXCEPT ![r] = "queued"]
    /\ stale' = (loop # NoReq /\ stale)
    /\ Forget
    /\ UNCHANGED <<store, req, info, all_points, offset, field, loop, created,
                   halfCleared>>

\* the event loop starts the handler of a waiting request
Begin(r, a) ==
    /\ pc[r] = "queued"
    /\ loop = NoReq
    /\ loop' = r
    /\ req' = [req EXCEPT ![r] = a]
    /\ pc' = [pc EXCEPT ![r] = FirstCall(a.op)]
    /\ out' = NoResponse
    /\ before' = IF a.name \in DOMAIN store
                 THEN [exists |-> TRUE,
                       vectors |-> store[a.name].vectors,
                       metadata |-> store[a.name].metadata,
                       nonempty |-> Len(store[a.name].points) > 0]
                 ELSE NoCollection
    /\ stale' = FALSE
    /\ faults' = 0
    /\ not_created' = {}
    /\ UNCHANGED <<store, info, all_points, offset, field, created, halfCleared>>

\* ---- POST /api/collections: create_collection
CreateExists_NoCheck(r) ==
    /\ pc[r] = "create_exists"
    /\ \E ok \in CallOutcomes :
        IF ~ok THEN StoreRaises(r)
        ELSE /\ Goto(r, "create_make")
             /\ UNCHANGED <<store, faults, not_created, created, halfCleared,
                            info, all_points, offset, field>>

CreateExists(r) ==
    /\ pc[r] = "create_exists"
    /\ \E ok \in CallOutcomes :
        IF ~ok THEN StoreRaises(r)
        ELSE IF collection_exists(store, req[r].name)
        THEN /\ Respond(r, "ValueError", "AlreadyExists", None)
             /\ UNCHANGED <<store, faults, not_created, created, halfCleared>>
        ELSE /\ Goto(r, "create_make")
             /\ UNCHANGED <<store, faults, not_created, created, halfCleared,
                            info, all_points, offset, field>>

CreateMake(r) ==
    /\ pc[r] = "create_make"
    /\ \E ok \in CallOutcomes :
        IF ~ok THEN StoreRaises(r)
        ELSE IF req[r].name \in DOMAIN store THEN StoreRejects(r)
        ELSE \E now \in Times :
             /\ store' = client_create_collection(store, req[r].name,
                            [size |-> req[r].vector_size,
                             distance |-> distance_map(req[r].distance)],
                            [description |-> req[r].description, created_at |-> now])
             /\ field' = [field EXCEPT ![r] = 1]
             /\ Goto(r, "create_index")
             /\ UNCHANGED <<faults, not_created, created, halfCleared, info, all_points, offset>>

\* the loop without its try/except: a create_payload_index that raises ends
\* the request
CreateIndex_Raises(r) ==
    /\ pc[r] = "create_index"
    /\ field[r] \in DOMAIN DEFAULT_PAYLOAD_INDEXES
    /\ \E ok \in CallOutcomes :
        IF ~ok THEN StoreRaises(r)
        ELSE /\ store' = store
             /\ UNCHANGED <<faults, not_created>>
             /\ IF field[r] < Len(DEFAULT_PAYLOAD_INDEXES)
                THEN /\ field' = [field EXCEPT ![r] = @ + 1]
                     /\ Goto(r, "create_index")
                     /\ UNCHANGED <<created, halfCleared, info, all_points, offset>>
                ELSE /\ Respond(r, "none", None, Success(req[r].name))
                     /\ UNCHANGED <<created, halfCleared>>

\* one turn of the loop over DEFAULT_PAYLOAD_INDEXES: create_payload_index
\* for the field at position field[r]; the except clause swallows a failure;
\* after the last field create_collection returns
CreateIndex(r) ==
    /\ pc[r] = "create_index"
    /\ field[r] \in DOMAIN DEFAULT_PAYLOAD_INDEXES
    /\ \E ok \in CallOutcomes :
        /\ store' = store
        /\ faults' = IF ok THEN faults ELSE faults + 1
        /\ not_created' = IF ok THEN not_created
                          ELSE not_created \cup {DEFAULT_PAYLOAD_INDEXES[field[r]]}
        /\ IF field[r] < Len(DEFAULT_PAYLOAD_INDEXES)
           THEN /\ field' = [field EXCEPT ![r] = @ + 1]
                /\ Goto(r, "create_index")
                /\ UNCHANGED <<created, halfCleared, info, all_points, offset>>
           ELSE /\ Respond(r, "none", None, Success(req[r].name))
                /\ created' = [n \in DOMAIN created \cup {req[r].name} |->
                                  IF n = req[r].name
                                  THEN [vector_size |-> req[r].vector_size,
                                        distance |-> req[r].distance]
                                  ELSE created[n]]
                /\ halfCleared' = halfCleared \ {req[r].name}

\* ---- GET /api/collections/{name}: get_collection_info
GetExists(r) ==
    /\ pc[r] = "get_exists"
    /\ ExistsOrNotFound(r, "get_info")

GetInfo(r) ==
    /\ pc[r] = "get_info"
    /\ \E ok \in CallOutcomes :
        IF ~ok THEN StoreRaises(r)
        ELSE IF req[r].name \notin DOMAIN store THEN StoreRejects(r)
        ELSE /\ Respond(r, "none", None,
                    CollectionStats(req[r].name,
                                    client_get_collection(store, req[r].name)))
             /\ UNCHANGED <<store, faults, not_created, created, halfCleared>>

\* ---- PATCH /api/collections/{name}: update_collection
UpdateExists(r) ==
    /\ pc[r] = "update_exists"
    /\ ExistsOrNotFound(r, "update_update")

UpdateUpdate(r) ==
    /\ pc[r] = "update_update"
    /\ \E ok \in CallOutcomes :
        IF ~ok THEN StoreRaises(r)
        ELSE IF req[r].name \notin DOMAIN store THEN StoreRejects(r)
        ELSE \E now \in Times, merge \in BOOLEAN :
             /\ store' = client_update_collection(store, req[r].name,
                            [description |-> req[r].description, updated_at |-> now],
                            merge)
             /\ Respond(r, "none", None, Success(req[r].name))
             /\ UNCHANGED <<faults, not_created, created, halfCleared>>

\* ---- DELETE /api/collections/{name}?force=: delete_collection
DeleteExists(r) ==
    /\ pc[r] = "delete_exists"
    /\ ExistsOrNotFound(r, "delete_info")

DeleteInfo_IgnoresPoints(r) ==
    /\ pc[r] = "delete_info"
    /\ \E ok \in CallOutcomes :
        IF ~ok THEN StoreRaises(r)
        ELSE IF req[r].name \notin DOMAIN store THEN StoreRejects(r)
        ELSE /\ info' = [info EXCEPT ![r] = client_get_collection(store, req[r].name)]
             /\ Goto(r, "delete_delete")
             /\ UNCHANGED <<store, faults, not_created, created, halfCleared,
                            all_points, offset, field>>

DeleteInfo(r) ==
    /\ pc[r] = "delete_info"
    /\ \E ok \in CallOutcomes :
        IF ~ok THEN StoreRaises(r)
        ELSE IF req[r].name \notin DOMAIN store THEN StoreRejects(r)
        ELSE LET i == client_get_collection(store, req[r].name)
             IN  IF i.points_count > 0 /\ ~req[r].force
                 THEN /\ Respond(r, "ValueError", "NotEmpty", None)
                      /\ UNCHANGED <<store, faults, not_created, created, halfCleared>>
                 ELSE /\ info' = [info EXCEPT ![r] = i]
                      /\ Goto(r, "delete_delete")
                      /\ UNCHANGED <<store, faults, not_created, created, halfCleared,
                                     all_points, offset, field>>

DeleteDelete(r) ==
    /\ pc[r] = "delete_delete"
    /\ \E ok \in CallOutcomes :
        IF ~ok THEN StoreRaises(r)
        ELSE /\ store' = client_delete_collection(store, req[r].name)
             /\ Respond(r, "none", None, Success(req[r].name))
             /\ created' = [n \in DOMAIN created \ {req[r].name} |-> created[n]]
             /\ UNCHANGED <<faults, not_created, halfCleared>>

\* ---- POST /api/collections/{name}/clear: clear_collection
ClearExists(r) ==
    /\ pc[r] = "clear_exists"
    /\ ExistsOrNotFound(r, "clear_info")

ClearInfo(r) ==
    /\ pc[r] = "clear_info"
    /\ \E ok \in CallOutcomes :
        IF ~ok THEN StoreRaises(r)
        ELSE IF req[r].name \notin DOMAIN store THEN StoreRejects(r)
        ELSE /\ info' = [info EXCEPT ![r] = client_get_collection(store, req[r].name)]
             /\ Goto(r, "clear_delete")
             /\ UNCHANGED <<store, faults, not_created, created, halfCleared,
                            all_points, offset, field>>

ClearDelete_KeepsCollection(r) ==
    /\ pc[r] = "clear_delete"
    /\ \E ok \in CallOutcomes :
        IF ~ok THEN StoreRaises(r)
        ELSE /\ store' = [store EXCEPT ![req[r].name].points = <<>>]
             /\ halfCleared' = halfCleared \cup {req[r].name}
             /\ Goto(r, "clear_create")
             /\ UNCHANGED <<faults, not_created, created, info, all_points, offset, field>>

ClearDelete(r) ==
    /\ pc[r] = "clear_delete"
    /\ \E ok \in CallOutcomes :
        IF ~ok THEN StoreRaises(r)
        ELSE /\ store' = client_delete_collection(store, req[r].name)
             /\ halfCleared' = halfCleared \cup {req[r].name}
             /\ Goto(r, "clear_create")
             /\ UNCHANGED <<faults, not_created, created, info, all_points, offset, field>>

ClearCreate_DropsMetadata(r) ==
    /\ pc[r] = "clear_create"
    /\ \E ok \in CallOutcomes :
        IF ~ok THEN StoreRaises(r)
        ELSE IF req[r].name \in DOMAIN store THEN StoreRejects(r)
        ELSE /\ store' = client_create_collection(store, req[r].name,
                            info[r].vectors, [k \in {} |-> None])
             /\ halfCleared' = halfCleared \ {req[r].name}
             /\ Respond(r, "none", None, Success(req[r].name))
             /\ UNCHANGED <<faults, not_created, created>>

ClearCreate(r) ==
    /\ pc[r] = "clear_create"
    /\ \E ok \in CallOutcomes :
        IF ~ok THEN StoreRaises(r)
        ELSE IF req[r].name \in DOMAIN store THEN StoreRejects(r)
        ELSE /\ store' = client_create_collection(store, req[r].name,
                            info[r].vectors, info[r].metadata)
             /\ halfCleared' = halfCleared \ {req[r].name}
             /\ Respond(r, "none", None, Success(req[r].name))
             /\ UNCHANGED <<faults, not_created, created>>

\* ---- GET /api/collections/{name}/exists: collection_exists
ExistsExists(r) ==
    /\ pc[r] = "exists_exists"
    /\ \E ok \in CallOutcomes :
        IF ~ok THEN StoreRaises(r)
        ELSE /\ Respond(r, "none", None,
                    [collection_name |-> req[r].name,
                     exists |-> collection_exists(store, req[r].name)])
             /\ UNCHANGED <<store, faults, not_created, created, halfCleared>>

\* ---- GET /api/collections/{name}/stats: get_collection_info, then
\* manager.get_collection_documents_count, which the manager does not have
StatsExists(r) ==
    /\ pc[r] = "stats_exists"
    /\ ExistsOrNotFound(r, "stats_info")

StatsInfo(r) ==
    /\ pc[r] = "stats_info"
    /\ \E ok \in CallOutcomes :
        IF ~ok THEN StoreRaises(r)
        ELSE IF req[r].name \notin DOMAIN store THEN StoreRejects(r)
        ELSE /\ Respond(r, "AttributeError", "get_collection_documents_count", None)
             /\ UNCHANGED <<store, faults, not_created, created, halfCleared>>

\* ---- GET /api/collections/{name}/documents: list_documents_in_collection
ListExists(r) ==
    /\ pc[r] = "list_exists"
    /\ ExistsOrNotFound(r, "list_scroll")

ListScroll_KeepsLastPage(r) ==
    /\ pc[r] = "list_scroll"
    /\ \E ok \in CallOutcomes :
        IF ~ok THEN StoreRaises(r)
        ELSE IF req[r].name \notin DOMAIN store THEN StoreRejects(r)
        ELSE LET page == client_scroll(store, req[r].name, ScrollLimit, offset[r])
                 points == page.points
             IN  IF page.next_offset = 0
                 THEN /\ Respond(r, "none", None, DocumentsResult(req[r].name, points))
                      /\ UNCHANGED <<store, faults, not_created, created, halfCleared>>
                 ELSE /\ all_points' = [all_points EXCEPT ![r] = points]
                      /\ offset' = [offset EXCEPT ![r] = page.next_offset]
                      /\ Goto(r, "list_scroll")
                      /\ UNCHANGED <<store, faults, not_created, created, halfCleared, info, field>>

\* one turn of the `while True` scan; the grouping follows the last page
ListScroll(r) ==
    /\ pc[r] = "list_scroll"
    /\ \E ok \in CallOutcomes :
        IF ~ok THEN StoreRaises(r)
        ELSE IF req[r].name \notin DOMAIN store THEN StoreRejects(r)
        ELSE LET page == client_scroll(store, req[r].name, ScrollLimit, offset[r])
                 points == all_points[r] \o page.points
             IN  IF page.next_offset = 0
                 THEN /\ Respond(r, "none", None, DocumentsResult(req[r].name, points))
                      /\ UNCHANGED <<store, faults, not_created, created, halfCleared>>
                 ELSE /\ all_points' = [all_points EXCEPT ![r] = points]
                      /\ offset' = [offset EXCEPT ![r] = page.next_offset]
                      /\ Goto(r, "list_scroll")
                      /\ UNCHANGED <<store, faults, not_created, created, halfCleared, info, field>>

\* ---- DELETE /api/collections/{name}/documents/{filename}:
\* delete_document_by_filename; Filter, FieldCondition and MatchValue are
\* not imported, so building the scroll filter raises NameError
DeldocExists(r) ==
    /\ pc[r] = "deldoc_exists"
    /\ \E ok \in CallOutcomes :
        IF ~ok THEN StoreRaises(r)
        ELSE /\ IF ~collection_exists(store, req[r].name)
                THEN Respond(r, "ValueError", "NotFound", None)
                ELSE Respond(r, "NameError", "Filter", None)
             /\ UNCHANGED <<store, faults, not_created, created, halfCleared>>

Next ==
    \/ \E n \in Names, i \in 1..MaxPoints, p \in Payloads : Ingest(n, i, p)
    \/ \E r \in Requests : Recv(r)
    \/ \E r \in Requests, a \in RequestArgs : Begin(r, a)
    \/ \E r \in Requests : CreateExists(r)
    \/ \E r \in Requests : CreateMake(r)
    \/ \E r \in Requests : CreateIndex(r)
    \/ \E r \in Requests : GetExists(r)
    \/ \E r \in Requests : GetInfo(r)
    \/ \E r \in Requests : UpdateExists(r)
    \/ \E r \in Requests : UpdateUpdate(r)
    \/ \E r \in Requests : DeleteExists(r)
    \/ \E r \in Requests : DeleteInfo(r)
    \/ \E r \in Requests : DeleteDelete(r)
    \/ \E r \in Requests : ClearExists(r)
    \/ \E r \in Requests : ClearInfo(r)
    \/ \E r \in Requests : ClearDelete(r)
    \/ \E r \in Requests : ClearCreate(r)
    \/ \E r \in Requests : ExistsExists(r)
    \/ \E r \in Requests : StatsExists(r)
    \/ \E r \in Requests : StatsInfo(r)
    \/ \E r \in Requests : ListExists(r)
    \/ \E r \in Requests : ListScroll(r)
    \/ \E r \in Requests : DeldocExists(r)

Spec == Init /\ [][Next]_vars

\* ---- two connections: a request received while another one's handler runs
TwoRequests == {"r1", "r2"}

\* the server starts against a store that holds a collection already
InitTwo ==
    /\ store = client_create_collection(EmptyStore, "c1",
                   [size |-> 4, distance |-> Distance_COSINE],
                   [description |-> None, created_at |-> "t1"])
    /\ pc = [r \in TwoRequests |-> "idle"]
    /\ req = [r \in TwoRequests |-> NoRequest]
    /\ info = [r \in TwoRequests |-> NoInfo]
    /\ all_points = [r \in TwoRequests |-> <<>>]
    /\ offset = [r \in TwoRequests |-> 0]
    /\ field = [r \in TwoRequests |-> 0]
    /\ loop = NoReq
    /\ out = NoResponse
    /\ faults = 0
    /\ not_created = {}
    /\ before = NoCollection
    /\ stale = FALSE
    /\ created = [n \in {"c1"} |-> [vector_size |-> 4, distance |-> "Cosine"]]
    /\ halfCleared = {}

\* the requests of the two read endpoints
ReadArgs == {a \in RequestArgs : a.op \in {"get", "list_documents"}}

\* the event loop starts the handler of r, if r waits and the loop is free
Start(r) == \E a \in ReadArgs : Begin(r, a)

\* the store call that the handler of r waits on returns, and the handler
\* runs up to its next store call or to its response
StoreReturns(r) ==
    \/ GetExists(r)
    \/ GetInfo(r)
    \/ ListExists(r)
    \/ ListScroll(r)

NextTwo ==
    \/ \E n \in Names, i \in 1..MaxPoints, p \in Payloads : Ingest(n, i, p)
    \/ \E r \in Requests : Recv(r)
    \/ \E r \in Requests : Start(r)
    \/ \E r \in Requests : GetExists(r)
    \/ \E r \in Requests : GetInfo(r)
    \/ \E r \in Requests : ListExists(r)
    \/ \E r \in Requests : ListScroll(r)

\* The event loop runs a waiting handler whenever it is free, first come
\* first served (SF on Start).  The store answers every call made for r2 in
\* the end; a call made for r1 may be slow without limit.
SpecSlowStore ==
    /\ InitTwo
    /\ [][NextTwo]_vars
    /\ \A r \in TwoRequests : SF_vars(Start(r))
    /\ WF_vars(StoreReturns("r2"))

\* The same server when the store answers every call in the end.
SpecPromptStore ==
    /\ SpecSlowStore
    /\ WF_vars(StoreReturns("r1"))

\* ------------------------------------------------------------ properties
\* the handler of r returns in this step; out' is its response
Answered(r) == pc[r] \notin {"idle", "queued"} /\ pc'[r] = "idle"

\* this step is one of the handler of r (and not of another client)
HandlerStep(r) ==
    /\ loop = r
    /\ <<pc, info, all_points, offset, field>>' # <<pc, info, all_points, offset, field>>

\* the filename a point is listed under
FilenameOf(p) == IF p.filename = Missing THEN "unknown" ELSE p.filename
FilenamesIn(pts) == {FilenameOf(pts[i]) : i \in DOMAIN pts}
ChunksOf(pts, f) == Cardinality({i \in DOMAIN pts : FilenameOf(pts[i]) = f})

\* C1: delete on a collection that held points when the request came in,
\* unless a store call raises: without force no step of the handler changes
\* the store and it answers 400 NotEmpty, the collection and its points
\* still there; with force it answers 200 and the collection is gone.
C1_DeleteForce ==
    [][\A r \in Requests :
        (loop = r /\ req[r].op = "delete" /\ before.nonempty) =>
            /\ (HandlerStep(r) /\ ~req[r].force) => store' = store
            /\ (Answered(r) /\ out'.exc # "StoreError") =>
                IF req[r].force
                THEN /\ out'.status = 200
                     /\ out'.exc = "none"
                     /\ req[r].name \notin DOMAIN store'
                ELSE /\ out'.status = 400
                     /\ out'.exc = "ValueError"
                     /\ out'.detail = "NotEmpty"
                     /\ req[r].name \in DOMAIN store'
                     /\ store'[req[r].name].points # <<>>]_vars

C1_Witness ==
    /\ out.request.op = "delete"
    /\ ~out.request.force
    /\ out.status = 400
    /\ out.detail = "NotEmpty"
    /\ before.nonempty
    /\ out.request.name \in DOMAIN store
    /\ Len(store[out.request.name].points) > 0

\* C2: deleteDocument on an existing collection, unless a store call raises:
\* with no point of that filename it answers 404 and the store is unchanged;
\* with N >= 1 such points it answers 200, and then the listing of the
\* collection has no entry of that filename and N points fewer.
C2_DeleteDocument ==
    [][\A r \in Requests :
        (Answered(r) /\ req[r].op = "delete_document" /\ before.exists
            /\ out'.exc # "StoreError") =>
            LET name == req[r].name
                N == ChunksOf(store[name].points, req[r].filename)
            IN  IF N = 0
                THEN /\ out'.status = 404
                     /\ out'.exc = "ValueError"
                     /\ store' = store
                ELSE /\ out'.status = 200
                     /\ name \in DOMAIN store'
                     /\ req[r].filename \notin FilenamesIn(store'[name].points)
                     /\ Len(store'[name].points) = Len(store[name].points) - N]_vars

\* C3: listDocuments that answers 200 after a scan under which no point was
\* written: total_points is the number of points of the collection,
\* total_documents the number of distinct filenames, and every filename has
\* exactly one entry, whose chunks_count is the number of its points.
C3_ListDocuments ==
    [][\A r \in Requests :
        (Answered(r) /\ req[r].op = "list_documents" /\ out'.exc = "none" /\ ~stale) =>
            LET pts == store[req[r].name].points
                res == out'.body
            IN  /\ out'.status = 200
                /\ res.total_points = Len(pts)
                /\ res.total_documents = Cardinality(FilenamesIn(pts))
                /\ Len(res.documents) = res.total_documents
                /\ \A f \in FilenamesIn(pts) :
                     \E i \in DOMAIN res.documents :
                        /\ res.documents[i].filename = f
                        /\ res.documents[i].chunks_count = ChunksOf(pts, f)
                        /\ \A j \in DOMAIN res.documents :
                             res.documents[j].filename = f => j = i]_vars

C3_Witness ==
    /\ out.request.op = "list_documents"
    /\ out.status = 200
    /\ ~stale
    /\ out.body.total_points > ScrollLimit
    /\ out.body.total_documents >= 2
    /\ \E i \in DOMAIN out.body.documents : out.body.documents[i].chunks_count >= 2

\* C4: create for a name that existed when the request came in, whatever
\* its other arguments, unless the store call raises: it answers 400
\* AlreadyExists and no step of the handler changes the store.
C4_CreateDuplicate ==
    [][\A r \in Requests :
        (loop = r /\ req[r].op = "create" /\ before.exists) =>
            /\ HandlerStep(r) => store' = store
            /\ (Answered(r) /\ out'.exc # "StoreError") =>
                /\ out'.status = 400
                /\ out'.exc = "ValueError"
                /\ out'.detail = "AlreadyExists"]_vars

C4_Witness ==
    /\ out.request.op = "create"
    /\ out.detail = "AlreadyExists"
    /\ out.request.name \in DOMAIN store
    /\ store[out.request.name].points # <<>>
    /\ out.request.vector_size # store[out.request.name].vectors.size
    /\ distance_map(out.request.distance) # store[out.request.name].vectors.distance
    /\ out.request.description #
         DictGet(store[out.request.name].metadata, "description", None)

\* C5: get of a collection made by a successful create with a supported
\* distance answers the vector_size and the distance that create was given.
C5_CreateThenGet ==
    [][\A r \in Requests :
        (Answered(r) /\ req[r].op = "get" /\ out'.exc = "none"
            /\ req[r].name \in DOMAIN created
            /\ created[req[r].name].distance \in SupportedDistances) =>
            /\ out'.body.vector_size = created[req[r].name].vector_size
            /\ out'.body.distance = created[req[r].name].distance]_vars

\* C6: clear that answers with success leaves the collection in the store
\* with the vector parameters and the metadata it had when the request came
\* in, and with no points.
C6_ClearPreserves ==
    [][\A r \in Requests :
        (Answered(r) /\ req[r].op = "clear" /\ out'.exc = "none") =>
            /\ out'.status = 200
            /\ before.exists
            /\ req[r].name \in DOMAIN store'
            /\ store'[req[r].name].vectors = before.vectors
            /\ store'[req[r].name].metadata = before.metadata
            /\ store'[req[r].name].points = <<>>]_vars

C6_Witness ==
    /\ out.request.op = "clear"
    /\ out.status = 200
    /\ before.exists
    /\ before.nonempty
    /\ before.vectors = [size |-> 4, distance |-> Distance_EUCLID]
    /\ DictGet(before.metadata, "description", None) = "d"
    /\ "updated_at" \in DOMAIN before.metadata
    /\ out.request.name \in DOMAIN store
    /\ store[out.request.name].points = <<>>

\* C7 as claimed: exists answers true exactly for the names that a create
\* has succeeded for and no delete has succeeded for since.
C7_ExistsIffCreated ==
    [][\A r \in Requests :
        (Answered(r) /\ req[r].op = "exists" /\ out'.exc = "none") =>
            out'.body.exists = (req[r].name \in DOMAIN created)]_vars

\* C7 as amended: exists answers true exactly for the names that a create
\* has succeeded for, no delete of which has succeeded since, and no clear
\* of which has since deleted the collection without recreating it.
C7_ExistsIffStanding ==
    [][\A r \in Requests :
        (Answered(r) /\ req[r].op = "exists" /\ out'.exc = "none") =>
            /\ out'.status = 200
            /\ out'.body.exists =
                 (req[r].name \in DOMAIN created /\ req[r].name \notin halfCleared)]_vars

C7_Witness ==
    /\ out.request.op = "exists"
    /\ out.status = 200
    /\ ~out.body.exists
    /\ out.request.name \in DOMAIN created
    /\ out.request.name \in halfCleared

\* C8: the stats endpoint answers 200 with the collection's stats when the
\* collection exists and 404 when it does not, and 500 only when a store
\* call raised.
C8_StatsAnswers ==
    [][\A r \in Requests :
        (Answered(r) /\ req[r].op = "stats") =>
            /\ out'.status = 500 => out'.exc = "StoreError"
            /\ out'.exc # "StoreError" =>
                 IF before.exists
                 THEN /\ out'.status = 200
                      /\ out'.body.name = req[r].name
                 ELSE out'.status = 404]_vars

\* C9: get, update, delete, clear, listDocuments and deleteDocument for a
\* name that was missing when the request came in, unless the store call
\* raises: the manager raises NotFound (answered 404, and 400 by the delete
\* endpoint) and no step of the handler changes the store.
C9_MissingNotFound ==
    [][\A r \in Requests :
        (loop = r /\ ~before.exists
            /\ req[r].op \in {"get", "update", "delete", "clear",
                              "list_documents", "delete_document"}) =>
            /\ HandlerStep(r) => store' = store
            /\ (Answered(r) /\ out'.exc # "StoreError") =>
                /\ out'.exc = "ValueError"
                /\ out'.detail = "NotFound"
                /\ out'.status = IF req[r].op = "delete" THEN 400 ELSE 404]_vars

C9_Witness ==
    /\ out.request.op = "update"
    /\ out.request.name = "c2"
    /\ out.status = 404
    /\ out.detail = "NotFound"
    /\ ~before.exists
    /\ "c1" \in DOMAIN store
    /\ store["c1"].points # <<>>

\* C10: clear is delete-collection then create-collection: while the handler
\* is between the two the collection is missing, and when the create call
\* raises the collection stays missing and the request is answered 500.
C10_ClearNotAtomic ==
    /\ [](\A r \in Requests :
            pc[r] = "clear_create" => req[r].name \notin DOMAIN store)
    /\ [][\A r \in Requests :
            (pc[r] = "clear_create" /\ Answered(r) /\ out'.exc = "StoreError") =>
                /\ out'.status = 500
                /\ req[r].name \notin DOMAIN store'
                /\ req[r].name \in halfCleared']_vars

C10_Witness ==
    /\ out.request.op = "clear"
    /\ out.status = 500
    /\ out.exc = "StoreError"
    /\ before.exists
    /\ before.nonempty
    /\ out.request.name \notin DOMAIN store
    /\ out.request.name \in halfCleared

\* C12: in create, after the create-collection call has succeeded, every turn
\* of the index loop leaves the store as it was, the collection in it,
\* whether create_payload_index raised or not: before the last field the
\* handler goes on to the next field without answering, and after the last
\* one it answers 201 with the success body; the fields logged as not
\* created are among those attempted so far.
C12_IndexFailuresSwallowed ==
    [][\A r \in Requests :
        (pc[r] = "create_index" /\ HandlerStep(r)) =>
            /\ req[r].op = "create"
            /\ store' = store
            /\ req[r].name \in DOMAIN store'
            /\ not_created \subseteq not_created'
            /\ not_created' \subseteq
                  {DEFAULT_PAYLOAD_INDEXES[i] : i \in 1..field[r]}
            /\ IF field[r] < Len(DEFAULT_PAYLOAD_INDEXES)
               THEN /\ pc'[r] = "create_index"
                    /\ field'[r] = field[r] + 1
                    /\ out' = NoResponse
               ELSE /\ Answered(r)
                    /\ out'.status = 201
                    /\ out'.exc = "none"
                    /\ out'.body = Success(req[r].name)]_vars

\* a create has answered 201 although the index calls for filename and date,
\* and only these, raised; the collection is in the store
C12_Witness ==
    /\ out.request.op = "create"
    /\ out.status = 201
    /\ not_created = {"filename", "date"}
    /\ out.request.name \in DOMAIN store

====
